---- MODULE Spec2Model ----
(***************************************************************************)
(* Token-aware document chunker and preprocessing orchestrator.            *)
(*                                                                         *)
(* Modelled from backend/app/services/preprocessing_service.py             *)
(* (PreprocessingService) and backend/app/schemas/content_chunk.py.       *)
(*                                                                         *)
(* Text representation.  A word is a positive integer, its length in       *)
(* characters.  A sentence, as returned by _segment_sentences, is a        *)
(* non-empty sequence of words separated by single spaces.  A chunk text   *)
(* is the sequence of the words of the sentences joined with " ".          *)
(* Absent page_number (None) is the number 0; real pages are 1-based.      *)
(***************************************************************************)
EXTENDS Integers, Sequences, FiniteSets, TLC

(***************************************************************************)
(* Bounds of the model.                                                    *)
(***************************************************************************)
MaxWordLen == 2
MaxSentWords == 2
MaxSentences == 3
MaxChunkTokens == 3
MaxOverlapTokens == 2

MaxStoredRows == 3
MaxSplitWords == 5
MaxPages == 3

NoPage == 0

\* defaults of preprocess_submission and bounds of PreprocessingRequest
DefaultChunkTokens == 900
DefaultOverlapTokens == 200
MinChunkTokens == 500
MaxChunkTokensAllowed == 2000
MinOverlapTokens == 0
MaxOverlapTokensAllowed == 500

Words == 1..MaxWordLen
SeqsUpTo(S, n) == UNION {[1..k -> S] : k \in 0..n}
Sentences == SeqsUpTo(Words, MaxSentWords) \ {<<>>}
SentenceLists == SeqsUpTo(Sentences, MaxSentences)
ChunkTokenArgs == (-1)..MaxChunkTokens
OverlapTokenArgs == (-1)..MaxOverlapTokens
PageArgs == {NoPage, 1}
TokenizerTypes == {"tiktoken", "transformers", "whitespace"}

VARIABLES
    tiktoken_ok,      \* "import tiktoken ... get_encoding" succeeds
    transformers_ok,  \* "AutoTokenizer.from_pretrained" succeeds
    tokenizer_type,   \* PreprocessingService.tokenizer_type
    sentences,        \* _segment_sentences(text) of the chunker call
    chunk_tokens,     \* argument of the chunker call
    overlap_tokens,   \* argument of the chunker call
    page_number,      \* argument of the chunker call
    chunks,           \* list returned by the chunker call
    raised,           \* exception raised by the chunker call, "none" if none
    cpc,              \* "call" before the chunker call, "returned" after it
    submissions,      \* Submission rows: content_type, file content, text
    sub_status,       \* committed Submission.status of every submission
    content_chunks,   \* committed ContentChunk rows, in insertion order
    pc,               \* position of every orchestrator in its current call
    call,             \* arguments of every orchestrator's latest call
    chunks_data,      \* chunks_data of the preprocess call in progress
    session_new,      \* ContentChunk objects added to the session, uncommitted
    result,           \* outcome of every orchestrator's latest call
    cli               \* the run of scripts/token_chunker_cli.py on the text

chunkerVars == <<sentences, chunk_tokens, overlap_tokens, page_number,
                 chunks, raised, cpc>>

serviceVars == <<submissions, sub_status, content_chunks, pc, call,
                 chunks_data, session_new, result>>

tokenizerVars == <<tiktoken_ok, transformers_ok, tokenizer_type>>

cliVars == <<cli>>

vars == <<tokenizerVars, chunkerVars, serviceVars, cliVars>>

(***************************************************************************)
(* Sequence helpers.                                                       *)
(***************************************************************************)
RECURSIVE SumSeq(_)
SumSeq(s) == IF s = <<>> THEN 0 ELSE Head(s) + SumSeq(Tail(s))

RECURSIVE Flatten(_)
Flatten(ss) == IF ss = <<>> THEN <<>> ELSE Head(ss) \o Flatten(Tail(ss))

\* len(" ".join(words)) for a list of words
StrLen(words) == IF words = <<>> THEN 0 ELSE SumSeq(words) + Len(words) - 1

\* " ".join(sentence list), as a list of words
JoinSentences(ss) == Flatten(ss)

(***************************************************************************)
(* _init_tokenizer: tiktoken, else transformers, else whitespace.          *)
(***************************************************************************)
\* InitTokenizer trying transformers before tiktoken
InitTokenizerTransformersFirst(tiktoken_available, transformers_available) ==
    IF transformers_available THEN "transformers"
    ELSE IF tiktoken_available THEN "tiktoken"
    ELSE "whitespace"

InitTokenizer(tiktoken_available, transformers_available) ==
    IF tiktoken_available THEN "tiktoken"
    ELSE IF transformers_available THEN "transformers"
    ELSE "whitespace"

\* the service after __init__: whichever encoders the environment offers,
\* tokenizer_type is what _init_tokenizer selected
TokenizerInit ==
    /\ tiktoken_ok \in BOOLEAN
    /\ transformers_ok \in BOOLEAN
    /\ tokenizer_type = InitTokenizer(tiktoken_ok, transformers_ok)

(***************************************************************************)
(* len(tokenizer.encode(text)) of the external encoders: one token per     *)
(* character of every word (sub-word pieces), additive over words.         *)
(***************************************************************************)
EncodeLen(words) == SumSeq(words)

(***************************************************************************)
(* _count_tokens: 0 for blank text, the encoder's length for tiktoken and  *)
(* transformers, the number of whitespace-separated words otherwise.       *)
(***************************************************************************)
\* CountTokens using the encoder's length for every tokenizer type
CountTokensAlwaysEncode(tt, words) ==
    IF words = <<>> THEN 0 ELSE EncodeLen(words)

CountTokens(tt, words) ==
    IF words = <<>> THEN 0
    ELSE IF tt = "tiktoken" THEN EncodeLen(words)
    ELSE IF tt = "transformers" THEN EncodeLen(words)
    ELSE Len(words)


\* OversizedChunk with end_token one past the tokens it holds
OversizedChunkEndPlusOne(tt, current_words, current_tokens, start_token_offset, local_char_offset, page) ==
    [text |-> current_words,
     token_count |-> current_tokens,
     metadata |-> [chunk_index |-> -1,
                   start_token |-> start_token_offset,
                   end_token |-> start_token_offset + current_tokens + 1,
                   char_offset_start |-> local_char_offset,
                   char_offset_end |-> local_char_offset + StrLen(current_words),
                   chunk_method |-> "token_based",
                   page_number |-> page,
                   oversized_split |-> TRUE,
                   tokenizer_type |-> tt]]

(***************************************************************************)
(* The chunk dictionary appended by _split_oversized_sentence for the      *)
(* words collected so far.  chunk_index is -1 until the caller sets it.    *)
(***************************************************************************)
OversizedChunk(tt, current_words, current_tokens, start_token_offset, local_char_offset, page) ==
    [text |-> current_words,
     token_count |-> current_tokens,
     metadata |-> [chunk_index |-> -1,
                   start_token |-> start_token_offset,
                   end_token |-> start_token_offset + current_tokens,
                   char_offset_start |-> local_char_offset,
                   char_offset_end |-> local_char_offset + StrLen(current_words),
                   chunk_method |-> "token_based",
                   page_number |-> page,
                   oversized_split |-> TRUE,
                   tokenizer_type |-> tt]]

\* SplitStep testing the budget before the word is counted
SplitStepLate(tt, w, word, ct, page) ==
    LET word_tokens == CountTokens(tt, <<word>>)
        w1 == IF w.current_tokens > ct /\ w.current_words # <<>>
              THEN [chunks |-> Append(w.chunks,
                                  OversizedChunk(tt, w.current_words,
                                                 w.current_tokens,
                                                 w.start_token_offset,
                                                 w.local_char_offset, page)),
                    current_words |-> <<>>,
                    current_tokens |-> 0,
                    start_token_offset |->
                        w.start_token_offset + w.current_tokens,
                    local_char_offset |->
                        w.local_char_offset + StrLen(w.current_words) + 1]
              ELSE w
    IN  [w1 EXCEPT !.current_words = Append(w1.current_words, word),
                   !.current_tokens = w1.current_tokens + word_tokens]

\* one iteration of "for word in words" of _split_oversized_sentence
SplitStep(tt, w, word, ct, page) ==
    LET word_tokens == CountTokens(tt, <<word>>)
        w1 == IF w.current_tokens + word_tokens > ct /\ w.current_words # <<>>
              THEN [chunks |-> Append(w.chunks,
                                  OversizedChunk(tt, w.current_words,
                                                 w.current_tokens,
                                                 w.start_token_offset,
                                                 w.local_char_offset, page)),
                    current_words |-> <<>>,
                    current_tokens |-> 0,
                    start_token_offset |->
                        w.start_token_offset + w.current_tokens,
                    local_char_offset |->
                        w.local_char_offset + StrLen(w.current_words) + 1]
              ELSE w
    IN  [w1 EXCEPT !.current_words = Append(w1.current_words, word),
                   !.current_tokens = w1.current_tokens + word_tokens]

RECURSIVE SplitLoop(_, _, _, _, _)
SplitLoop(tt, w, words, ct, page) ==
    IF words = <<>> THEN w
    ELSE SplitLoop(tt, SplitStep(tt, w, Head(words), ct, page),
                   Tail(words), ct, page)

\* SplitOversizedSentence counting characters from the start of the sentence
SplitOversizedSentenceFromZero(tt, sentence, ct, ov, start_token_offset, start_char_offset, page) ==
    LET w == SplitLoop(tt, [chunks |-> <<>>,
                            current_words |-> <<>>,
                            current_tokens |-> 0,
                            start_token_offset |-> start_token_offset,
                            local_char_offset |-> 0],
                       sentence, ct, page)
    IN  IF w.current_words # <<>>
        THEN Append(w.chunks,
                    OversizedChunk(tt, w.current_words, w.current_tokens,
                                   w.start_token_offset, w.local_char_offset,
                                   page))
        ELSE w.chunks

(***************************************************************************)
(* _split_oversized_sentence: word-level split of one sentence.            *)
(* overlap_tokens is accepted and never used.                              *)
(***************************************************************************)
SplitOversizedSentence(tt, sentence, ct, ov, start_token_offset, start_char_offset, page) ==
    LET w == SplitLoop(tt, [chunks |-> <<>>,
                            current_words |-> <<>>,
                            current_tokens |-> 0,
                            start_token_offset |-> start_token_offset,
                            local_char_offset |-> start_char_offset],
                       sentence, ct, page)
    IN  IF w.current_words # <<>>
        THEN Append(w.chunks,
                    OversizedChunk(tt, w.current_words, w.current_tokens,
                                   w.start_token_offset, w.local_char_offset,
                                   page))
        ELSE w.chunks

\* NormalChunk with the two character offsets exchanged
NormalChunkOffsetsSwapped(tt, st, page) ==
    [text |-> JoinSentences(st.current_chunk_sentences),
     token_count |-> st.current_token_count,
     metadata |-> [chunk_index |-> Len(st.chunks),
                   start_token |-> st.global_token_offset,
                   end_token |-> st.global_token_offset + st.current_token_count,
                   char_offset_start |-> st.char_offset,
                   char_offset_end |->
                       st.char_offset
                         - StrLen(JoinSentences(st.current_chunk_sentences)),
                   chunk_method |-> "token_based",
                   page_number |-> page,
                   tokenizer_type |-> tt,
                   sentence_count |-> Len(st.current_chunk_sentences)]]

\* NormalChunk counting words instead of sentences
NormalChunkCountsWords(tt, st, page) ==
    [text |-> JoinSentences(st.current_chunk_sentences),
     token_count |-> st.current_token_count,
     metadata |-> [chunk_index |-> Len(st.chunks),
                   start_token |-> st.global_token_offset,
                   end_token |-> st.global_token_offset + st.current_token_count,
                   char_offset_start |->
                       st.char_offset
                         - StrLen(JoinSentences(st.current_chunk_sentences)),
                   char_offset_end |-> st.char_offset,
                   chunk_method |-> "token_based",
                   page_number |-> page,
                   tokenizer_type |-> tt,
                   sentence_count |->
                       Len(JoinSentences(st.current_chunk_sentences))]]

\* NormalChunk with end_token taken from the count alone (offset forgotten)
NormalChunkEndIsCount(tt, st, page) ==
    [text |-> JoinSentences(st.current_chunk_sentences),
     token_count |-> st.current_token_count,
     metadata |-> [chunk_index |-> Len(st.chunks),
                   start_token |-> st.global_token_offset,
                   end_token |-> st.current_token_count,
                   char_offset_start |->
                       st.char_offset
                         - StrLen(JoinSentences(st.current_chunk_sentences)),
                   char_offset_end |-> st.char_offset,
                   chunk_method |-> "token_based",
                   page_number |-> page,
                   tokenizer_type |-> tt,
                   sentence_count |-> Len(st.current_chunk_sentences)]]

(***************************************************************************)
(* The chunk dictionary appended when the pending sentences are finalized  *)
(* (the three identical literals of _token_based_chunker).                 *)
(***************************************************************************)
NormalChunk(tt, st, page) ==
    [text |-> JoinSentences(st.current_chunk_sentences),
     token_count |-> st.current_token_count,
     metadata |-> [chunk_index |-> Len(st.chunks),
                   start_token |-> st.global_token_offset,
                   end_token |-> st.global_token_offset + st.current_token_count,
                   char_offset_start |->
                       st.char_offset
                         - StrLen(JoinSentences(st.current_chunk_sentences)),
                   char_offset_end |-> st.char_offset,
                   chunk_method |-> "token_based",
                   page_number |-> page,
                   tokenizer_type |-> tt,
                   sentence_count |-> Len(st.current_chunk_sentences)]]

(***************************************************************************)
(* The overlap loop: whole sentences of the finalized chunk, scanned in    *)
(* reverse, kept while the running count stays <= overlap_tokens.          *)
(***************************************************************************)
RECURSIVE OverlapScan(_, _, _, _, _)
OverlapScan(tt, ss, ov, overlap_sentences, overlap_count) ==
    IF ss = <<>> THEN overlap_sentences
    ELSE LET sent == ss[Len(ss)]
             sent_tokens == CountTokens(tt, sent)
         IN  IF overlap_count + sent_tokens <= ov
             THEN OverlapScan(tt, SubSeq(ss, 1, Len(ss) - 1), ov,
                              <<sent>> \o overlap_sentences,
                              overlap_count + sent_tokens)
             ELSE overlap_sentences

\* OverlapSentences with the budget test made before the sentence is counted
OverlapSentencesLoose(tt, ss, ov) == OverlapScan(tt, ss, ov + 1, <<>>, 0)

OverlapSentences(tt, ss, ov) == OverlapScan(tt, ss, ov, <<>>, 0)

RECURSIVE SumTokens(_, _)
SumTokens(tt, ss) ==
    IF ss = <<>> THEN 0
    ELSE CountTokens(tt, Head(ss)) + SumTokens(tt, Tail(ss))

\* FlushWithOverlap advancing the token offset past the overlap tail as well
FlushWithOverlapFullAdvance(tt, st, ov, page) ==
    LET overlap_sentences ==
            OverlapSentences(tt, st.current_chunk_sentences, ov)
        overlap_count == SumTokens(tt, overlap_sentences)
    IN  [st EXCEPT !.chunks = Append(st.chunks, NormalChunk(tt, st, page)),
                   !.global_token_offset =
                       st.global_token_offset + st.current_token_count,
                   !.current_chunk_sentences = overlap_sentences,
                   !.current_token_count = overlap_count]

\* "Finalize current chunk" followed by "Calculate overlap for next chunk"
FlushWithOverlap(tt, st, ov, page) ==
    LET overlap_sentences ==
            OverlapSentences(tt, st.current_chunk_sentences, ov)
        overlap_count == SumTokens(tt, overlap_sentences)
    IN  [st EXCEPT !.chunks = Append(st.chunks, NormalChunk(tt, st, page)),
                   !.global_token_offset =
                       st.global_token_offset
                         + (st.current_token_count - overlap_count),
                   !.current_chunk_sentences = overlap_sentences,
                   !.current_token_count = overlap_count]

\* FlushPending emitting its chunk without the page number
FlushPendingNoPage(tt, st, page) ==
    [st EXCEPT !.chunks = Append(st.chunks, NormalChunk(tt, st, NoPage)),
               !.global_token_offset =
                   st.global_token_offset + st.current_token_count,
               !.current_chunk_sentences = <<>>,
               !.current_token_count = 0]

\* "First, finalize any pending chunk" of the oversized branch
FlushPending(tt, st, page) ==
    [st EXCEPT !.chunks = Append(st.chunks, NormalChunk(tt, st, page)),
               !.global_token_offset =
                   st.global_token_offset + st.current_token_count,
               !.current_chunk_sentences = <<>>,
               !.current_token_count = 0]

\* AppendSplitChunks keeping only the first split chunk
AppendSplitChunksFirstOnly(cs, split_chunks) ==
    cs \o [i \in 1..1 |->
             [split_chunks[i] EXCEPT !.metadata.chunk_index = Len(cs) + i - 1]]

\* AppendSplitChunks without the index update (chunk_index stays -1)
AppendSplitChunksUnindexed(cs, split_chunks) == cs \o split_chunks

\* "Update chunk indices": each split chunk gets len(chunks), then is appended
AppendSplitChunks(cs, split_chunks) ==
    cs \o [i \in 1..Len(split_chunks) |->
             [split_chunks[i] EXCEPT !.metadata.chunk_index = Len(cs) + i - 1]]

RECURSIVE SumTokenCounts(_)
SumTokenCounts(cs) ==
    IF cs = <<>> THEN 0 ELSE Head(cs).token_count + SumTokenCounts(Tail(cs))

\* ChunkStep without the budget test: pending sentences are never flushed
ChunkStepNoBudgetTest(tt, st, sentence, ct, ov, page) ==
    LET sentence_tokens == CountTokens(tt, sentence)
        st1 == st
    IN  IF sentence_tokens > ct
        THEN LET st2 == IF st1.current_chunk_sentences # <<>>
                        THEN FlushPending(tt, st1, page)
                        ELSE st1
                 split_chunks ==
                     SplitOversizedSentence(tt, sentence, ct, ov,
                                            st2.global_token_offset,
                                            st2.char_offset, page)
             IN  [st2 EXCEPT
                    !.chunks = AppendSplitChunks(st2.chunks, split_chunks),
                    !.global_token_offset =
                        st2.global_token_offset + SumTokenCounts(split_chunks),
                    !.char_offset = st2.char_offset + StrLen(sentence) + 1]
        ELSE [st1 EXCEPT
                !.current_chunk_sentences =
                    Append(st1.current_chunk_sentences, sentence),
                !.current_token_count =
                    st1.current_token_count + sentence_tokens,
                !.char_offset = st1.char_offset + StrLen(sentence) + 1]

\* ChunkStep splitting also a sentence of exactly chunk_tokens tokens
ChunkStepSplitsAtBudget(tt, st, sentence, ct, ov, page) ==
    LET sentence_tokens == CountTokens(tt, sentence)
        st1 == IF st.current_token_count + sentence_tokens > ct
                  /\ st.current_chunk_sentences # <<>>
               THEN FlushWithOverlap(tt, st, ov, page)
               ELSE st
    IN  IF sentence_tokens >= ct
        THEN LET st2 == IF st1.current_chunk_sentences # <<>>
                        THEN FlushPending(tt, st1, page)
                        ELSE st1
                 split_chunks ==
                     SplitOversizedSentence(tt, sentence, ct, ov,
                                            st2.global_token_offset,
                                            st2.char_offset, page)
             IN  [st2 EXCEPT
                    !.chunks = AppendSplitChunks(st2.chunks, split_chunks),
                    !.global_token_offset =
                        st2.global_token_offset + SumTokenCounts(split_chunks),
                    !.char_offset = st2.char_offset + StrLen(sentence) + 1]
        ELSE [st1 EXCEPT
                !.current_chunk_sentences =
                    Append(st1.current_chunk_sentences, sentence),
                !.current_token_count =
                    st1.current_token_count + sentence_tokens,
                !.char_offset = st1.char_offset + StrLen(sentence) + 1]

\* one iteration of "for sentence in sentences" of _token_based_chunker
ChunkStep(tt, st, sentence, ct, ov, page) ==
    LET sentence_tokens == CountTokens(tt, sentence)
        st1 == IF st.current_token_count + sentence_tokens > ct
                  /\ st.current_chunk_sentences # <<>>
               THEN FlushWithOverlap(tt, st, ov, page)
               ELSE st
    IN  IF sentence_tokens > ct
        THEN LET st2 == IF st1.current_chunk_sentences # <<>>
                        THEN FlushPending(tt, st1, page)
                        ELSE st1
                 split_chunks ==
                     SplitOversizedSentence(tt, sentence, ct, ov,
                                            st2.global_token_offset,
                                            st2.char_offset, page)
             IN  [st2 EXCEPT
                    !.chunks = AppendSplitChunks(st2.chunks, split_chunks),
                    !.global_token_offset =
                        st2.global_token_offset + SumTokenCounts(split_chunks),
                    !.char_offset = st2.char_offset + StrLen(sentence) + 1]
        ELSE [st1 EXCEPT
                !.current_chunk_sentences =
                    Append(st1.current_chunk_sentences, sentence),
                !.current_token_count =
                    st1.current_token_count + sentence_tokens,
                !.char_offset = st1.char_offset + StrLen(sentence) + 1]

RECURSIVE ChunkLoop(_, _, _, _, _, _)
ChunkLoop(tt, st, ss, ct, ov, page) ==
    IF ss = <<>> THEN st
    ELSE ChunkLoop(tt, ChunkStep(tt, st, Head(ss), ct, ov, page),
                   Tail(ss), ct, ov, page)

\* TokenBasedChunker without the final flush of the pending sentences
TokenBasedChunkerNoFinalFlush(tt, ss, ct, ov, page) ==
    IF ss = <<>> THEN <<>>
    ELSE ChunkLoop(tt, [chunks |-> <<>>,
                        current_chunk_sentences |-> <<>>,
                        current_token_count |-> 0,
                        global_token_offset |-> 0,
                        char_offset |-> 0],
                   ss, ct, ov, page).chunks

(***************************************************************************)
(* _token_based_chunker on the segmented sentences of its text argument.   *)
(* It validates neither budget and raises nothing.                         *)
(***************************************************************************)
TokenBasedChunker(tt, ss, ct, ov, page) ==
    IF ss = <<>> THEN <<>>
    ELSE LET st == ChunkLoop(tt, [chunks |-> <<>>,
                                  current_chunk_sentences |-> <<>>,
                                  current_token_count |-> 0,
                                  global_token_offset |-> 0,
                                  char_offset |-> 0],
                             ss, ct, ov, page)
         IN  IF st.current_chunk_sentences # <<>>
             THEN Append(st.chunks, NormalChunk(tt, st, page))
             ELSE st.chunks

(***************************************************************************)
(* _chunk_pdf: pages numbered from 1, blank pages skipped, every other     *)
(* page chunked on its own, chunk indices renumbered over all pages.       *)
(***************************************************************************)
\* RenumberPage counting the chunks of the document from 1
RenumberPageFromOne(page_chunks, global_chunk_index) ==
    [i \in 1..Len(page_chunks) |->
       [page_chunks[i] EXCEPT !.metadata.chunk_index = global_chunk_index + i]]

\* RenumberPage keeping the page-local index of every chunk
RenumberPageLocal(page_chunks, global_chunk_index) ==
    [i \in 1..Len(page_chunks) |->
       [page_chunks[i] EXCEPT !.metadata.chunk_index = i - 1]]

\* RenumberPage also shifting the token offsets by the chunks of earlier pages
RenumberPageShiftsTokens(page_chunks, global_chunk_index) ==
    [i \in 1..Len(page_chunks) |->
       [page_chunks[i] EXCEPT
          !.metadata.chunk_index = global_chunk_index + i - 1,
          !.metadata.start_token = @ + global_chunk_index,
          !.metadata.end_token = @ + global_chunk_index]]

\* "Update global chunk indices" for the chunks of one page
RenumberPage(page_chunks, global_chunk_index) ==
    [i \in 1..Len(page_chunks) |->
       [page_chunks[i] EXCEPT
          !.metadata.chunk_index = global_chunk_index + i - 1]]

RECURSIVE PdfLoop(_, _, _, _, _, _)
PdfLoop(tt, pages, page_num, acc, ct, ov) ==
    IF page_num > Len(pages) THEN acc
    ELSE IF pages[page_num] = <<>>
         THEN PdfLoop(tt, pages, page_num + 1, acc, ct, ov)
         ELSE LET page_chunks ==
                      TokenBasedChunker(tt, pages[page_num], ct, ov, page_num)
              IN  PdfLoop(tt, pages, page_num + 1,
                          [all_chunks |->
                               acc.all_chunks
                                 \o RenumberPage(page_chunks,
                                                 acc.global_chunk_index),
                           global_chunk_index |->
                               acc.global_chunk_index + Len(page_chunks)],
                          ct, ov)

\* ChunkPdf numbering only the pages that have text
ChunkPdfDropsBlank(tt, pages, ct, ov) ==
    PdfLoop(tt, SelectSeq(pages, LAMBDA t : t # <<>>), 1,
            [all_chunks |-> <<>>, global_chunk_index |-> 0], ct, ov).all_chunks

ChunkPdf(tt, pages, ct, ov) ==
    PdfLoop(tt, pages, 1, [all_chunks |-> <<>>, global_chunk_index |-> 0],
            ct, ov).all_chunks

\* _chunk_docx on the text returned by parse_docx
ChunkDocx(tt, docx_content, ct, ov) ==
    TokenBasedChunker(tt, docx_content, ct, ov, NoPage)

\* _chunk_text
ChunkText(tt, text, ct, ov, source_type) ==
    TokenBasedChunker(tt, text, ct, ov, NoPage)

(***************************************************************************)
(* The submission store, the chunk store and the orchestrators.            *)
(***************************************************************************)
Subs == {"A", "B"}
UnknownId == "X"
SubmissionIds == Subs \cup {UnknownId}
Orchestrators == {"o1", "o2"}
Sequential == {"o1"}

Statuses == {"uploaded", "preprocessing", "preprocessed", "failed"}
TextTypes == {"html", "markdown", "text"}

TextOne == << <<1>>, <<1, 1>> >>
TextTwo == << <<2, 1>> >>
Blank == <<>>

\* the documents a submission can hold
Documents ==
    {[content_type |-> "text", file_pages |-> <<>>,
      original_content |-> TextOne],
     [content_type |-> "markdown", file_pages |-> <<>>,
      original_content |-> Blank],
     [content_type |-> "docx", file_pages |-> <<TextTwo>>,
      original_content |-> Blank],
     [content_type |-> "pdf", file_pages |-> <<TextOne, Blank, TextTwo>>,
      original_content |-> Blank],
     [content_type |-> "xml", file_pages |-> <<>>,
      original_content |-> TextOne]}

\* budget pairs passed to preprocess_submission
BudgetArgs ==
    {<<DefaultChunkTokens, DefaultOverlapTokens>>,
     <<2, 1>>,
     <<MaxChunkTokensAllowed + 1, MaxOverlapTokensAllowed + 1>>}

\* the Field bounds of PreprocessingRequest.chunk_tokens and .overlap_tokens
BudgetsInBounds(ct, ov) ==
    /\ ct >= MinChunkTokens /\ ct <= MaxChunkTokensAllowed
    /\ ov >= MinOverlapTokens /\ ov <= MaxOverlapTokensAllowed

NoCall == [op |-> "none", sid |-> UnknownId, chunk_tokens |-> 0,
           overlap_tokens |-> 0]
PreprocessCall(sid, ct, ov) ==
    [op |-> "preprocess", sid |-> sid, chunk_tokens |-> ct,
     overlap_tokens |-> ov]
DeleteCall(sid) ==
    [op |-> "delete_chunks", sid |-> sid, chunk_tokens |-> 0,
     overlap_tokens |-> 0]

NoResult == [kind |-> "none", value |-> 0, error |-> "none"]
Running == [kind |-> "running", value |-> 0, error |-> "none"]
Return(n) == [kind |-> "return", value |-> n, error |-> "none"]
Raise(e) == [kind |-> "raise", value |-> 0, error |-> e]
Aborted == [kind |-> "abort", value |-> 0, error |-> "BaseException"]

\* rows of the chunk store that belong to one submission
ChunksOf(table, sid) == SelectSeq(table, LAMBDA r : r.submission_id = sid)

\* ContentChunk numbering the rows from 1
ContentChunkOneBased(sid, idx, chunk_data) ==
    [submission_id |-> sid,
     chunk_index |-> idx + 1,
     text |-> chunk_data.text,
     token_count |-> chunk_data.token_count,
     metadata |-> chunk_data.metadata]

\* the ContentChunk built by the insert loop for chunks_data[idx]
ContentChunk(sid, idx, chunk_data) ==
    [submission_id |-> sid,
     chunk_index |-> idx,
     text |-> chunk_data.text,
     token_count |-> chunk_data.token_count,
     metadata |-> chunk_data.metadata]

\* AlreadyPreprocessed with the short-circuit test lost
AlreadyPreprocessedNever(status) == FALSE

\* the test "submission.status == 'preprocessed'" of the short-circuit
AlreadyPreprocessed(status) == status = "preprocessed"

\* the dispatch on submission.content_type
RouteChunks(tt, submission, ct, ov) ==
    IF submission.content_type = "pdf"
    THEN ChunkPdf(tt, submission.file_pages, ct, ov)
    ELSE IF submission.content_type = "docx"
    THEN ChunkDocx(tt, submission.file_pages[1], ct, ov)
    ELSE ChunkText(tt, submission.original_content, ct, ov,
                   submission.content_type)

\* SupportedType accepting every content type
SupportedTypeAny(content_type) == TRUE

\* the content types the dispatch has a branch for
SupportedType(content_type) ==
    content_type \in {"pdf", "docx"} \cup TextTypes

ServiceIdle ==
    /\ pc = [p \in Orchestrators |-> "idle"]
    /\ call = [p \in Orchestrators |-> NoCall]
    /\ chunks_data = [p \in Orchestrators |-> <<>>]
    /\ session_new = [p \in Orchestrators |-> <<>>]
    /\ result = [p \in Orchestrators |-> NoResult]
    /\ content_chunks = <<>>

\* TokenChunker.chunk_text has not been called
CliIdle == cli = [pc |-> "call", chunks |-> <<>>]

ChunkerIdle ==
    /\ sentences = <<>>
    /\ chunk_tokens = DefaultChunkTokens
    /\ overlap_tokens = DefaultOverlapTokens
    /\ page_number = NoPage
    /\ chunks = <<>>
    /\ raised = "none"
    /\ cpc = "idle"

(***************************************************************************)
(* Specification of one chunker call on arbitrary bounded inputs.          *)
(***************************************************************************)
ChunkerInit ==
    /\ TokenizerInit
    /\ sentences \in SentenceLists
    /\ chunk_tokens \in ChunkTokenArgs
    /\ overlap_tokens \in OverlapTokenArgs
    /\ page_number \in PageArgs
    /\ chunks = <<>>
    /\ raised = "none"
    /\ cpc = "call"
    /\ submissions =
           [s \in Subs |-> CHOOSE d \in Documents : d.content_type = "text"]
    /\ sub_status = [s \in Subs |-> "uploaded"]
    /\ ServiceIdle
    /\ CliIdle

RunChunker ==
    /\ cpc = "call"
    /\ chunks' = TokenBasedChunker(tokenizer_type, sentences, chunk_tokens,
                                   overlap_tokens, page_number)
    /\ raised' = "none"
    /\ cpc' = "returned"
    /\ UNCHANGED <<tokenizerVars, cliVars, sentences, chunk_tokens, overlap_tokens,
                   page_number, serviceVars>>

ChunkerNext == RunChunker

SpecChunker == ChunkerInit /\ [][ChunkerNext]_vars

(***************************************************************************)
(* Properties of one chunker call.                                         *)
(***************************************************************************)
IsOversized(c) ==
    "oversized_split" \in DOMAIN c.metadata /\ c.metadata.oversized_split = TRUE

WellFormedBudgets ==
    chunk_tokens >= 1 /\ overlap_tokens >= 0 /\ overlap_tokens < chunk_tokens

Returned == cpc = "returned"

\* C1: with chunk_tokens >= 1 and 0 <= overlap_tokens < chunk_tokens, every
\* returned chunk has token_count <= chunk_tokens or is flagged
\* oversized_split = true.
C1_TokenBudget ==
    (Returned /\ WellFormedBudgets) =>
        \A i \in 1..Len(chunks) :
            chunks[i].token_count <= chunk_tokens \/ IsOversized(chunks[i])

\* C2: every returned chunk, normal or oversized sub-chunk, has
\* end_token = start_token + token_count.
C2_EndToken ==
    Returned =>
        \A i \in 1..Len(chunks) :
            chunks[i].metadata.end_token
                = chunks[i].metadata.start_token + chunks[i].token_count

C2_Witness ==
    /\ Returned /\ WellFormedBudgets
    /\ \E i, j \in 1..Len(chunks) :
          /\ IsOversized(chunks[i]) /\ ~IsOversized(chunks[j])
          /\ chunks[i].metadata.start_token > 0
          /\ chunks[j].metadata.start_token > 0

\* C3: within one chunker run the first chunk has chunk_index 0 and for every
\* adjacent pair start_token does not decrease and chunk_index grows by one.
C3_Progress ==
    Returned =>
        /\ (chunks # <<>> => chunks[1].metadata.chunk_index = 0)
        /\ \A i \in 1..(Len(chunks) - 1) :
              /\ chunks[i + 1].metadata.start_token
                    >= chunks[i].metadata.start_token
              /\ chunks[i + 1].metadata.chunk_index
                    = chunks[i].metadata.chunk_index + 1

C3_Witness ==
    /\ Returned /\ WellFormedBudgets
    /\ Len(chunks) >= 4
    /\ \E i \in 1..(Len(chunks) - 1) :
          ~IsOversized(chunks[i]) /\ IsOversized(chunks[i + 1])
    /\ \E i \in 1..(Len(chunks) - 1) :
          IsOversized(chunks[i]) /\ ~IsOversized(chunks[i + 1])

\* C4: with overlap_tokens >= 0, for every adjacent pair of returned chunks
\* the realized overlap end_token[i] - start_token[i+1] is at least 0 and at
\* most overlap_tokens.
C4_RealizedOverlap ==
    (Returned /\ overlap_tokens >= 0) =>
        \A i \in 1..(Len(chunks) - 1) :
            LET realized == chunks[i].metadata.end_token
                              - chunks[i + 1].metadata.start_token
            IN  realized >= 0 /\ realized <= overlap_tokens

C4_Witness ==
    /\ Returned /\ WellFormedBudgets
    /\ overlap_tokens >= 2
    /\ \E i \in 1..(Len(chunks) - 1) :
          /\ chunks[i].metadata.end_token
               - chunks[i + 1].metadata.start_token = overlap_tokens
          /\ chunks[i].token_count > overlap_tokens
    /\ \E i \in 1..(Len(chunks) - 1) :
          chunks[i].metadata.end_token = chunks[i + 1].metadata.start_token

\* C5: a chunker call with malformed budgets (overlap_tokens >= chunk_tokens,
\* chunk_tokens < 1, or a negative budget) raises InvalidConfig and produces
\* no chunks.
C5_InvalidConfig ==
    (Returned /\ ~WellFormedBudgets) =>
        raised = "InvalidConfig" /\ chunks = <<>>

(***************************************************************************)
(* preprocess_submission, one action per step between its commit points.   *)
(* The errors carry the names of the error taxonomy: the ValueError of an   *)
(* unresolved id is SubmissionNotFound, the Exception re-raised by the      *)
(* handler is PreprocessingFailed.                                          *)
(***************************************************************************)
Finish(p, r) ==
    /\ pc' = [pc EXCEPT ![p] = "idle"]
    /\ result' = [result EXCEPT ![p] = r]
    /\ chunks_data' = [chunks_data EXCEPT ![p] = <<>>]
    /\ session_new' = [session_new EXCEPT ![p] = <<>>]

\* PreprocessNotFound returning 0 instead of raising
PreprocessNotFoundSilent(p, sid, ct, ov) ==
    /\ pc[p] = "idle"
    /\ sid \notin Subs
    /\ call' = [call EXCEPT ![p] = PreprocessCall(sid, ct, ov)]
    /\ result' = [result EXCEPT ![p] = Return(0)]
    /\ UNCHANGED <<tokenizerVars, cliVars, chunkerVars, submissions, sub_status,
                   content_chunks, pc, chunks_data, session_new>>

\* the submission is not found: ValueError, nothing written
PreprocessNotFound(p, sid, ct, ov) ==
    /\ pc[p] = "idle"
    /\ sid \notin Subs
    /\ call' = [call EXCEPT ![p] = PreprocessCall(sid, ct, ov)]
    /\ result' = [result EXCEPT ![p] = Raise("SubmissionNotFound")]
    /\ UNCHANGED <<tokenizerVars, cliVars, chunkerVars, submissions, sub_status,
                   content_chunks, pc, chunks_data, session_new>>

\* PreprocessSkip counting the rows of every submission
PreprocessSkipCountsAll(p, sid, ct, ov) ==
    /\ pc[p] = "idle"
    /\ sid \in Subs
    /\ AlreadyPreprocessed(sub_status[sid])
    /\ call' = [call EXCEPT ![p] = PreprocessCall(sid, ct, ov)]
    /\ result' = [result EXCEPT ![p] = Return(Len(content_chunks))]
    /\ UNCHANGED <<tokenizerVars, cliVars, chunkerVars, submissions, sub_status,
                   content_chunks, pc, chunks_data, session_new>>

\* "Skip if already preprocessed": return len(submission.chunks)
PreprocessSkip(p, sid, ct, ov) ==
    /\ pc[p] = "idle"
    /\ sid \in Subs
    /\ AlreadyPreprocessed(sub_status[sid])
    /\ call' = [call EXCEPT ![p] = PreprocessCall(sid, ct, ov)]
    /\ result' = [result EXCEPT
                    ![p] = Return(Len(ChunksOf(content_chunks, sid)))]
    /\ UNCHANGED <<tokenizerVars, cliVars, chunkerVars, submissions, sub_status,
                   content_chunks, pc, chunks_data, session_new>>

\* status = "preprocessing" and commit; no test of the budgets
PreprocessBegin(p, sid, ct, ov) ==
    /\ pc[p] = "idle"
    /\ sid \in Subs
    /\ ~AlreadyPreprocessed(sub_status[sid])
    /\ Len(content_chunks) < MaxStoredRows
    /\ call' = [call EXCEPT ![p] = PreprocessCall(sid, ct, ov)]
    /\ sub_status' = [sub_status EXCEPT ![sid] = "preprocessing"]
    /\ pc' = [pc EXCEPT ![p] = "extract"]
    /\ result' = [result EXCEPT ![p] = Running]
    /\ chunks_data' = [chunks_data EXCEPT ![p] = <<>>]
    /\ session_new' = [session_new EXCEPT ![p] = <<>>]
    /\ UNCHANGED <<tokenizerVars, cliVars, chunkerVars, submissions, content_chunks>>

\* extraction and chunking succeed
ExtractAndChunk(p) ==
    /\ pc[p] = "extract"
    /\ SupportedType(submissions[call[p].sid].content_type)
    /\ chunks_data' = [chunks_data EXCEPT
                         ![p] = RouteChunks(tokenizer_type,
                                            submissions[call[p].sid],
                                            call[p].chunk_tokens,
                                            call[p].overlap_tokens)]
    /\ pc' = [pc EXCEPT ![p] = "insert"]
    /\ UNCHANGED <<tokenizerVars, cliVars, chunkerVars, submissions, sub_status,
                   content_chunks, call, session_new, result>>

\* extract_pdf_pages or parse_docx raises
ExtractionFails(p) ==
    /\ pc[p] = "extract"
    /\ submissions[call[p].sid].content_type \in {"pdf", "docx"}
    /\ pc' = [pc EXCEPT ![p] = "except"]
    /\ UNCHANGED <<tokenizerVars, cliVars, chunkerVars, submissions, sub_status,
                   content_chunks, call, chunks_data, session_new, result>>

\* raise ValueError("Unsupported content type")
UnsupportedContentType(p) ==
    /\ pc[p] = "extract"
    /\ ~SupportedType(submissions[call[p].sid].content_type)
    /\ pc' = [pc EXCEPT ![p] = "except"]
    /\ UNCHANGED <<tokenizerVars, cliVars, chunkerVars, submissions, sub_status,
                   content_chunks, call, chunks_data, session_new, result>>

\* one iteration of the insert loop: db.add(ContentChunk(...))
InsertChunk(p) ==
    /\ pc[p] = "insert"
    /\ Len(session_new[p]) < Len(chunks_data[p])
    /\ LET idx == Len(session_new[p])
       IN  session_new' =
               [session_new EXCEPT
                  ![p] = Append(@, ContentChunk(call[p].sid, idx,
                                                chunks_data[p][idx + 1]))]
    /\ UNCHANGED <<tokenizerVars, cliVars, chunkerVars, submissions, sub_status,
                   content_chunks, pc, call, chunks_data, result>>

\* one iteration of the insert loop raises; earlier objects stay in the session
InsertFails(p) ==
    /\ pc[p] = "insert"
    /\ Len(session_new[p]) < Len(chunks_data[p])
    /\ pc' = [pc EXCEPT ![p] = "except"]
    /\ UNCHANGED <<tokenizerVars, cliVars, chunkerVars, submissions, sub_status,
                   content_chunks, call, chunks_data, session_new, result>>

\* status = "preprocessed" and commit: the added rows become visible
CommitPreprocessed(p) ==
    /\ pc[p] = "insert"
    /\ Len(session_new[p]) = Len(chunks_data[p])
    /\ content_chunks' = content_chunks \o session_new[p]
    /\ sub_status' = [sub_status EXCEPT ![call[p].sid] = "preprocessed"]
    /\ Finish(p, Return(Len(chunks_data[p])))
    /\ UNCHANGED <<tokenizerVars, cliVars, chunkerVars, submissions, call>>

\* the commit raises: the session rolls its transaction back
CommitFails(p) ==
    /\ pc[p] = "insert"
    /\ Len(session_new[p]) = Len(chunks_data[p])
    /\ session_new' = [session_new EXCEPT ![p] = <<>>]
    /\ pc' = [pc EXCEPT ![p] = "except"]
    /\ UNCHANGED <<tokenizerVars, cliVars, chunkerVars, submissions, sub_status,
                   content_chunks, call, chunks_data, result>>

\* except Exception: status = "failed", commit (of everything the session
\* holds, no rollback first), raise Exception("Preprocessing failed")
HandleFailure(p) ==
    /\ pc[p] = "except"
    /\ content_chunks' = content_chunks \o session_new[p]
    /\ sub_status' = [sub_status EXCEPT ![call[p].sid] = "failed"]
    /\ Finish(p, Raise("PreprocessingFailed"))
    /\ UNCHANGED <<tokenizerVars, cliVars, chunkerVars, submissions, call>>

\* a BaseException (cancellation, interrupt) passes "except Exception":
\* nothing more is committed and the session is dropped
Abort(p) ==
    /\ pc[p] \in {"extract", "insert", "except"}
    /\ Finish(p, Aborted)
    /\ UNCHANGED <<tokenizerVars, cliVars, chunkerVars, submissions, sub_status,
                   content_chunks, call>>

(***************************************************************************)
(* delete_chunks: delete the rows of the submission, reset its status to   *)
(* "uploaded" if it exists, commit, return the number of rows deleted.     *)
(***************************************************************************)
\* DeleteChunks deleting the rows of every submission
DeleteChunksAll(p, sid) ==
    /\ pc[p] = "idle"
    /\ call' = [call EXCEPT ![p] = DeleteCall(sid)]
    /\ content_chunks' = <<>>
    /\ sub_status' = IF sid \in Subs
                     THEN [sub_status EXCEPT ![sid] = "uploaded"]
                     ELSE sub_status
    /\ result' = [result EXCEPT
                    ![p] = Return(Len(ChunksOf(content_chunks, sid)))]
    /\ UNCHANGED <<tokenizerVars, cliVars, chunkerVars, submissions, pc, chunks_data,
                   session_new>>

\* DeleteChunks leaving the status as it was
DeleteChunksNoReset(p, sid) ==
    /\ pc[p] = "idle"
    /\ call' = [call EXCEPT ![p] = DeleteCall(sid)]
    /\ content_chunks' =
           SelectSeq(content_chunks, LAMBDA r : r.submission_id # sid)
    /\ sub_status' = sub_status
    /\ result' = [result EXCEPT
                    ![p] = Return(Len(ChunksOf(content_chunks, sid)))]
    /\ UNCHANGED <<tokenizerVars, cliVars, chunkerVars, submissions, pc, chunks_data,
                   session_new>>

DeleteChunks(p, sid) ==
    /\ pc[p] = "idle"
    /\ call' = [call EXCEPT ![p] = DeleteCall(sid)]
    /\ content_chunks' =
           SelectSeq(content_chunks, LAMBDA r : r.submission_id # sid)
    /\ sub_status' = IF sid \in Subs
                     THEN [sub_status EXCEPT ![sid] = "uploaded"]
                     ELSE sub_status
    /\ result' = [result EXCEPT
                    ![p] = Return(Len(ChunksOf(content_chunks, sid)))]
    /\ UNCHANGED <<tokenizerVars, cliVars, chunkerVars, submissions, pc, chunks_data,
                   session_new>>

(***************************************************************************)
(* Specification of one orchestrator: calls never overlap.                 *)
(***************************************************************************)
Init ==
    /\ TokenizerInit
    /\ submissions \in [Subs -> Documents]
    /\ sub_status = [s \in Subs |-> "uploaded"]
    /\ ServiceIdle
    /\ CliIdle
    /\ ChunkerIdle

Next ==
    \E p \in Sequential :
        \/ \E sid \in SubmissionIds, b \in BudgetArgs :
              \/ PreprocessNotFound(p, sid, b[1], b[2])
              \/ PreprocessSkip(p, sid, b[1], b[2])
              \/ PreprocessBegin(p, sid, b[1], b[2])
        \/ ExtractAndChunk(p)
        \/ ExtractionFails(p)
        \/ UnsupportedContentType(p)
        \/ InsertChunk(p)
        \/ InsertFails(p)
        \/ CommitPreprocessed(p)
        \/ CommitFails(p)
        \/ HandleFailure(p)
        \/ Abort(p)
        \/ \E sid \in SubmissionIds : DeleteChunks(p, sid)

Spec == Init /\ [][Next]_vars

(***************************************************************************)
(* Properties of the orchestrator.                                         *)
(***************************************************************************)
\* orchestrator p makes a call in this step
Invoked(p) ==
    /\ pc[p] = "idle"
    /\ \/ call'[p] # call[p]
       \/ result'[p] # result[p]
       \/ pc'[p] # pc[p]

\* C6: preprocess called with chunk_tokens outside [500, 2000] or
\* overlap_tokens outside [0, 500] is rejected with InvalidConfig and leaves
\* every status and every stored chunk unchanged.
C6_OutOfBoundsRejected ==
    [][\A p \in Orchestrators :
          (/\ Invoked(p)
           /\ call'[p].op = "preprocess"
           /\ ~BudgetsInBounds(call'[p].chunk_tokens,
                               call'[p].overlap_tokens))
          => (/\ result'[p] = Raise("InvalidConfig")
              /\ UNCHANGED <<sub_status, content_chunks>>)]_vars

SpecTransitions ==
    {<<"uploaded", "preprocessing">>,
     <<"preprocessing", "preprocessed">>,
     <<"preprocessing", "failed">>,
     <<"preprocessed", "uploaded">>}

DeletedBy(p, s) == Invoked(p) /\ call'[p] = DeleteCall(s)

\* C7 as stated: the only status changes are uploaded -> preprocessing,
\* preprocessing -> preprocessed, preprocessing -> failed, and
\* preprocessed -> uploaded by delete_chunks.
C7_OnlySpecTransitions ==
    [][\A s \in Subs :
          sub_status'[s] # sub_status[s]
          => (/\ <<sub_status[s], sub_status'[s]>> \in SpecTransitions
              /\ sub_status'[s] = "uploaded"
                   => \E p \in Orchestrators : DeletedBy(p, s))]_vars

PreprocessTransitions ==
    {<<"uploaded", "preprocessing">>,
     <<"failed", "preprocessing">>,
     <<"preprocessing", "preprocessed">>,
     <<"preprocessing", "failed">>}

\* C7 amended: when calls do not overlap, the only status changes are
\* uploaded -> preprocessing, failed -> preprocessing (a retry),
\* preprocessing -> preprocessed, preprocessing -> failed, and a change from
\* any other status to uploaded made by delete_chunks.
C7_StatusTransitions ==
    [][\A s \in Subs :
          sub_status'[s] # sub_status[s]
          => \/ <<sub_status[s], sub_status'[s]>> \in PreprocessTransitions
             \/ /\ sub_status'[s] = "uploaded"
                /\ \E p \in Orchestrators : DeletedBy(p, s)]_vars

\* a retry of a failed run is under way: the rows the failed run left are
\* stored and the status is preprocessing again
C7_Witness ==
    \E p \in Orchestrators :
        /\ pc[p] = "insert"
        /\ sub_status[call[p].sid] = "preprocessing"
        /\ ChunksOf(content_chunks, call[p].sid) # <<>>

\* C8: the failure handler's commit of status failed makes no chunk of the
\* failed run visible: the rows added to the session before the failure are
\* rolled back.
C8_FailureCommitsNoChunks ==
    [][\A p \in Orchestrators :
          (pc[p] = "except" /\ result'[p] = Raise("PreprocessingFailed"))
          => (/\ sub_status'[call[p].sid] = "failed"
              /\ content_chunks' = content_chunks)]_vars

\* C9: a preprocess invocation aborted between its commit of preprocessing
\* and its commit of preprocessed leaves the submission in status failed
\* with none of its chunks stored.
C9_AbortLeavesFailed ==
    [][\A p \in Orchestrators :
          (pc[p] # "idle" /\ result'[p] = Aborted)
          => (/\ sub_status'[call[p].sid] = "failed"
              /\ content_chunks' = content_chunks)]_vars

\* C10: the chunk_index values stored for a submission are exactly
\* 0 .. N-1, N the number of its stored rows.
C10_DenseIndices ==
    \A s \in Subs :
        LET rows == ChunksOf(content_chunks, s)
        IN  /\ {rows[i].chunk_index : i \in 1..Len(rows)} = 0..(Len(rows) - 1)
            /\ \A i, j \in 1..Len(rows) :
                  rows[i].chunk_index = rows[j].chunk_index => i = j

ExpectedRows(sid, ct, ov) ==
    LET cd == RouteChunks(tokenizer_type, submissions[sid], ct, ov)
    IN  [i \in 1..Len(cd) |-> ContentChunk(sid, i - 1, cd[i])]

\* orchestrator p commits a successful preprocess run in this step
Succeeds(p) == pc[p] = "insert" /\ result'[p].kind = "return"

\* C12: with unchanged content, preprocess; delete_chunks; preprocess with
\* the same budgets stores the same chunk set as the first preprocess.  The
\* run after delete_chunks stores the rows computed from the content and the
\* budgets, so the claim says that every successful run leaves exactly those
\* rows stored for its submission.
C12_SameChunkSet ==
    [][\A p \in Orchestrators :
          Succeeds(p)
          => ChunksOf(content_chunks', call[p].sid)
               = ExpectedRows(call[p].sid, call[p].chunk_tokens,
                              call[p].overlap_tokens)]_vars

\* the rows a step appended to the chunk store
Written == SubSeq(content_chunks', Len(content_chunks) + 1, Len(content_chunks'))

\* C13: the commit of a successful run on a submission that was not
\* preprocessed appends one row per chunk the router returned, in the router's
\* order with chunk_index 0, 1, 2, ..., sets the status preprocessed in the
\* same step, and returns the number of rows it appended.
C13_SuccessfulRun ==
    [][\A p \in Orchestrators :
          Succeeds(p)
          => LET sid == call[p].sid
                 cd == RouteChunks(tokenizer_type, submissions[sid],
                                   call[p].chunk_tokens, call[p].overlap_tokens)
             IN  /\ sub_status[sid] # "preprocessed"
                 /\ sub_status'[sid] = "preprocessed"
                 /\ content_chunks' = content_chunks \o Written
                 /\ Len(Written) = Len(cd)
                 /\ \A i \in 1..Len(cd) :
                       /\ Written[i].chunk_index = i - 1
                       /\ Written[i].submission_id = sid
                       /\ Written[i].text = cd[i].text
                       /\ Written[i].token_count = cd[i].token_count
                       /\ Written[i].metadata = cd[i].metadata
                 /\ result'[p] = Return(Len(Written))]_vars

C13_Witness ==
    \E p \in Orchestrators :
        /\ pc[p] = "idle"
        /\ call[p] = PreprocessCall("A", 2, 1)
        /\ submissions["A"].content_type = "pdf"
        /\ sub_status["A"] = "preprocessed"
        /\ result[p] = Return(3)
        /\ content_chunks = ExpectedRows("A", 2, 1)

\* C14: a preprocess run whose extraction or chunking raises, or whose
\* submission has a content type other than pdf, docx, html, markdown, text,
\* enters the failure handler with nothing added to its session; the handler
\* commits status failed, the run stores no chunk, and the caller gets the
\* PreprocessingFailed error, never a return value.
C14_ExtractionFailure ==
    [][\A p \in Orchestrators :
          LET sid == call[p].sid
          IN  /\ (/\ pc[p] = "extract"
                  /\ submissions[sid].content_type
                       \notin {"pdf", "docx", "html", "markdown", "text"}
                  /\ pc'[p] # pc[p]
                  /\ result'[p] # Aborted)
                 => pc'[p] = "except"
              /\ (pc[p] = "extract" /\ pc'[p] = "except")
                 => (/\ session_new'[p] = <<>>
                     /\ chunks_data'[p] = <<>>
                     /\ result'[p] = Running
                     /\ UNCHANGED <<sub_status, content_chunks>>)
              /\ (/\ pc[p] = "except"
                  /\ chunks_data[p] = <<>>
                  /\ pc'[p] # pc[p]
                  /\ result'[p] # Aborted)
                 => (/\ sub_status'[sid] = "failed"
                     /\ content_chunks' = content_chunks
                     /\ result'[p] = Raise("PreprocessingFailed")
                     /\ pc'[p] = "idle")]_vars

C14_Witness ==
    \E p \in Orchestrators :
        /\ pc[p] = "idle"
        /\ call[p].op = "preprocess"
        /\ call[p].sid = "A"
        /\ submissions["A"].content_type = "xml"
        /\ sub_status["A"] = "failed"
        /\ result[p] = Raise("PreprocessingFailed")
        /\ ChunksOf(content_chunks, "A") = <<>>
        /\ ChunksOf(content_chunks, "B") # <<>>

\* C15: preprocess with a submission id that does not resolve raises
\* SubmissionNotFound and writes nothing: no status changes, no row is added
\* to the session or the store, and the call ends without a commit.
C15_NotFound ==
    [][\A p \in Orchestrators :
          (/\ Invoked(p)
           /\ call'[p].op = "preprocess"
           /\ call'[p].sid \notin Subs)
          => (/\ result'[p] = Raise("SubmissionNotFound")
              /\ pc'[p] = "idle"
              /\ session_new'[p] = session_new[p]
              /\ chunks_data'[p] = chunks_data[p]
              /\ UNCHANGED <<sub_status, content_chunks, submissions>>)]_vars

C15_Witness ==
    \E p \in Orchestrators :
        /\ pc[p] = "idle"
        /\ call[p].op = "preprocess"
        /\ call[p].sid = UnknownId
        /\ result[p] = Raise("SubmissionNotFound")
        /\ sub_status["A"] = "preprocessed"
        /\ sub_status["B"] = "failed"
        /\ content_chunks # <<>>

\* C16: delete_chunks(sid) leaves no stored row of sid, leaves the rows of
\* every other submission as they were, sets the status of sid to uploaded,
\* and returns the number of rows of sid stored before the call.
C16_DeleteChunks ==
    [][\A p \in Orchestrators :
          (Invoked(p) /\ call'[p].op = "delete_chunks")
          => LET sid == call'[p].sid
             IN  /\ ChunksOf(content_chunks', sid) = <<>>
                 /\ \A s \in Subs \ {sid} :
                       ChunksOf(content_chunks', s) = ChunksOf(content_chunks, s)
                 /\ sid \in Subs => sub_status'[sid] = "uploaded"
                 /\ result'[p] = Return(Len(ChunksOf(content_chunks, sid)))
                 /\ pc'[p] = "idle"]_vars

C16_Witness ==
    \E p \in Orchestrators :
        /\ pc[p] = "idle"
        /\ call[p] = DeleteCall("A")
        /\ result[p] = Return(2)
        /\ sub_status["A"] = "uploaded"
        /\ ChunksOf(content_chunks, "A") = <<>>
        /\ ChunksOf(content_chunks, "B") # <<>>

(***************************************************************************)
(* Specification of two orchestrators, each with its own session, whose     *)
(* steps interleave between commit points.                                  *)
(***************************************************************************)
ConcDocuments ==
    {[content_type |-> "text", file_pages |-> <<>>,
      original_content |-> TextOne],
     [content_type |-> "docx", file_pages |-> <<TextTwo>>,
      original_content |-> Blank],
     [content_type |-> "xml", file_pages |-> <<>>,
      original_content |-> TextOne]}

ConcBudgetArgs == {<<2, 1>>}

ConcInit ==
    /\ tiktoken_ok = FALSE
    /\ transformers_ok = FALSE
    /\ tokenizer_type = InitTokenizer(tiktoken_ok, transformers_ok)
    /\ submissions \in {f \in [Subs -> ConcDocuments] :
                           f["A"].content_type = "text"}
    /\ sub_status = [s \in Subs |-> "uploaded"]
    /\ ServiceIdle
    /\ CliIdle
    /\ ChunkerIdle

NextConc ==
    \E p \in Orchestrators :
        \/ \E sid \in SubmissionIds, b \in ConcBudgetArgs :
              \/ PreprocessNotFound(p, sid, b[1], b[2])
              \/ PreprocessSkip(p, sid, b[1], b[2])
              \/ PreprocessBegin(p, sid, b[1], b[2])
        \/ ExtractAndChunk(p)
        \/ ExtractionFails(p)
        \/ UnsupportedContentType(p)
        \/ InsertChunk(p)
        \/ InsertFails(p)
        \/ CommitPreprocessed(p)
        \/ CommitFails(p)
        \/ HandleFailure(p)
        \/ Abort(p)
        \/ \E sid \in SubmissionIds : DeleteChunks(p, sid)

SpecConc == ConcInit /\ [][NextConc]_vars

\* what orchestrator p holds for the call it is making
Local(p) == <<pc[p], call[p], result[p], chunks_data[p], session_new[p]>>

\* orchestrator p takes this step: its own state changes, or nobody's does
\* and p repeats the delete_chunks call it made last
Acts(p) ==
    \/ Local(p)' # Local(p)
    \/ /\ \A q \in Orchestrators : Local(q)' = Local(q)
       /\ pc[p] = "idle"
       /\ call[p].op = "delete_chunks"

\* C17: the status and the stored rows of a submission change only in a
\* step of an orchestrator whose call is on that submission; steps of calls
\* on another submission leave them as they are, however the steps of the
\* two orchestrators interleave.
C17_Isolation ==
    [][\A s \in Subs :
          (\/ sub_status'[s] # sub_status[s]
           \/ ChunksOf(content_chunks', s) # ChunksOf(content_chunks, s))
          => \E p \in Orchestrators : Acts(p) /\ call'[p].sid = s]_vars

C17_Witness ==
    /\ pc["o1"] = "insert"
    /\ call["o1"].sid = "A"
    /\ Len(session_new["o1"]) = 2
    /\ pc["o2"] = "except"
    /\ call["o2"].sid = "B"
    /\ session_new["o2"] # <<>>
    /\ ChunksOf(content_chunks, "A") # <<>>
    /\ ChunksOf(content_chunks, "B") # <<>>

\* C18: when the first sentence of the text fits the budget (it is not
\* split), the first chunk returned has char_offset_start = 0.
C18_FirstOffsetZero ==
    (/\ Returned
     /\ WellFormedBudgets
     /\ sentences # <<>>
     /\ CountTokens(tokenizer_type, sentences[1]) <= chunk_tokens)
    => (/\ chunks # <<>>
        /\ chunks[1].metadata.char_offset_start = 0)

\* the text fits one chunk: its sentences' token counts sum to at most
\* chunk_tokens
FitsOneChunk == SumTokens(tokenizer_type, sentences) <= chunk_tokens

\* the single chunk holding every sentence of the text
IsWholeText(c) ==
    /\ c.metadata.chunk_index = 0
    /\ c.metadata.start_token = 0
    /\ c.token_count = SumTokens(tokenizer_type, sentences)
    /\ c.metadata.sentence_count = Len(sentences)
    /\ "oversized_split" \notin DOMAIN c.metadata

\* C19 as stated: whenever the sentences' token counts sum to at most
\* chunk_tokens (budgets well formed), the chunker returns exactly one chunk,
\* with chunk_index 0, start_token 0, token_count the sum, sentence_count the
\* number of sentences and no oversized_split flag.
C19_SingleChunk ==
    (Returned /\ WellFormedBudgets /\ FitsOneChunk)
    => (Len(chunks) = 1 /\ IsWholeText(chunks[1]))

\* C19 amended: the same for a text with at least one sentence, whatever
\* overlap_tokens is.
C19_SingleChunkOfSentences ==
    (Returned /\ FitsOneChunk /\ sentences # <<>>)
    => (Len(chunks) = 1 /\ IsWholeText(chunks[1]))

C19_Witness ==
    /\ Returned /\ WellFormedBudgets
    /\ Len(sentences) = 2
    /\ Len(sentences[2]) = 2
    /\ SumTokens(tokenizer_type, sentences) = chunk_tokens
    /\ overlap_tokens > 0
    /\ Len(chunks) = 1
    /\ chunks[1].metadata.sentence_count = 2

(***************************************************************************)
(* Specification of one chunker call on a text of one long sentence.       *)
(***************************************************************************)
LongSentences == SeqsUpTo(Words, MaxSplitWords) \ {<<>>}

OversizedInit ==
    /\ TokenizerInit
    /\ sentences \in {<<s>> : s \in LongSentences}
    /\ chunk_tokens \in ChunkTokenArgs
    /\ overlap_tokens \in OverlapTokenArgs
    /\ page_number \in PageArgs
    /\ chunks = <<>>
    /\ raised = "none"
    /\ cpc = "call"
    /\ submissions =
           [s \in Subs |-> CHOOSE d \in Documents : d.content_type = "text"]
    /\ sub_status = [s \in Subs |-> "uploaded"]
    /\ ServiceIdle
    /\ CliIdle

SpecOversized == OversizedInit /\ [][ChunkerNext]_vars

\* the text is one sentence of one-token words, more of them than chunk_tokens
OneLongSentence ==
    /\ chunk_tokens >= 1
    /\ Len(sentences) = 1
    /\ \A i \in 1..Len(sentences[1]) :
          CountTokens(tokenizer_type, <<sentences[1][i]>>) = 1
    /\ Len(sentences[1]) > chunk_tokens

\* C20: for one sentence of W one-token words, W > chunk_tokens, the chunker
\* returns at least ceil(W / chunk_tokens) chunks, each flagged
\* oversized_split with 0 < token_count <= chunk_tokens, their token counts
\* sum to W, and every value of overlap_tokens gives the same chunks.
C20_OversizedSentence ==
    (Returned /\ OneLongSentence)
    => LET W == Len(sentences[1])
       IN  /\ Len(chunks) * chunk_tokens >= W
           /\ \A i \in 1..Len(chunks) :
                 /\ IsOversized(chunks[i])
                 /\ chunks[i].token_count > 0
                 /\ chunks[i].token_count <= chunk_tokens
           /\ SumTokenCounts(chunks) = W
           /\ \A ov \in OverlapTokenArgs :
                 chunks = TokenBasedChunker(tokenizer_type, sentences,
                                            chunk_tokens, ov, page_number)

C20_Witness ==
    /\ Returned /\ OneLongSentence
    /\ Len(sentences[1]) = MaxSplitWords
    /\ chunk_tokens = 2
    /\ overlap_tokens = 1
    /\ Len(chunks) >= 3
    /\ chunks[Len(chunks)].token_count = 1

(***************************************************************************)
(* Specification of one _chunk_pdf call on the pages of submission A.       *)
(***************************************************************************)
TextThree == << <<1>>, <<1>>, <<1, 1>> >>

\* the page texts extract_pdf_pages can return
PageTexts == {Blank, TextOne, TextTwo, TextThree}

PageLists == SeqsUpTo(PageTexts, MaxPages)

PdfDocument(pages) ==
    [content_type |-> "pdf", file_pages |-> pages, original_content |-> Blank]

PdfInit ==
    /\ TokenizerInit
    /\ sentences = <<>>
    /\ chunk_tokens \in ChunkTokenArgs
    /\ overlap_tokens \in OverlapTokenArgs
    /\ page_number = NoPage
    /\ chunks = <<>>
    /\ raised = "none"
    /\ cpc = "call"
    /\ submissions \in {[s \in Subs |-> PdfDocument(pages)] : pages \in PageLists}
    /\ sub_status = [s \in Subs |-> "uploaded"]
    /\ ServiceIdle
    /\ CliIdle

RunChunkPdf ==
    /\ cpc = "call"
    /\ chunks' = ChunkPdf(tokenizer_type, submissions["A"].file_pages,
                          chunk_tokens, overlap_tokens)
    /\ raised' = "none"
    /\ cpc' = "returned"
    /\ UNCHANGED <<tokenizerVars, cliVars, sentences, chunk_tokens, overlap_tokens,
                   page_number, serviceVars>>

PdfNext == RunChunkPdf

SpecPdf == PdfInit /\ [][PdfNext]_vars

\* the pages of the chunked PDF and the positions of those that have text
pdf_pages == submissions["A"].file_pages

NonBlankPages == {n \in 1..Len(pdf_pages) : pdf_pages[n] # <<>>}

\* the chunks of page n, in output order
ChunksOfPage(n) == SelectSeq(chunks, LAMBDA c : c.metadata.page_number = n)

\* C21: the page numbers found in the chunks of a PDF are exactly the 1-based
\* positions of the pages that have text (a blank page's number is in no
\* chunk, every other page has a chunk), and they never decrease along the
\* chunk sequence.
C21_PageNumbers ==
    Returned =>
        /\ {chunks[i].metadata.page_number : i \in 1..Len(chunks)}
             = NonBlankPages
        /\ \A i \in 1..(Len(chunks) - 1) :
              chunks[i + 1].metadata.page_number
                 >= chunks[i].metadata.page_number

C21_Witness ==
    /\ Returned /\ WellFormedBudgets
    /\ Len(pdf_pages) = 3
    /\ NonBlankPages = {2, 3}
    /\ Len(ChunksOfPage(2)) >= 2
    /\ Len(ChunksOfPage(3)) >= 2

\* C22: the chunk_index values of the chunks of a PDF are 0, 1, ..., N-1 in
\* output order: no restart at a page boundary, no gap for a blank page.
C22_GlobalIndices ==
    Returned =>
        \A i \in 1..Len(chunks) : chunks[i].metadata.chunk_index = i - 1

C22_Witness ==
    /\ Returned /\ WellFormedBudgets
    /\ NonBlankPages = {1, 3}
    /\ Len(ChunksOfPage(1)) >= 2
    /\ Len(ChunksOfPage(3)) >= 2
    /\ ChunksOfPage(3)[1].metadata.chunk_index = Len(ChunksOfPage(1))

\* C23: token offsets are local to a page: the first chunk of every page that
\* has text starts at token 0, and within the chunks of one page start_token
\* never decreases and never passes the end_token of the chunk before.
C23_PageLocalOffsets ==
    Returned =>
        \A n \in NonBlankPages :
            LET cs == ChunksOfPage(n)
            IN  /\ cs # <<>>
                /\ cs[1].metadata.start_token = 0
                /\ \A i \in 1..(Len(cs) - 1) :
                      /\ cs[i + 1].metadata.start_token
                            >= cs[i].metadata.start_token
                      /\ cs[i + 1].metadata.start_token
                            <= cs[i].metadata.end_token

C23_Witness ==
    /\ Returned /\ WellFormedBudgets
    /\ \E i \in 1..(Len(chunks) - 1) :
          /\ chunks[i].metadata.page_number < chunks[i + 1].metadata.page_number
          /\ chunks[i].metadata.start_token > 0
          /\ chunks[i + 1].metadata.start_token = 0
    /\ \E i \in 1..(Len(chunks) - 1) :
          /\ chunks[i].metadata.page_number = chunks[i + 1].metadata.page_number
          /\ chunks[i + 1].metadata.start_token > 0
          /\ chunks[i + 1].metadata.start_token < chunks[i].metadata.end_token

\* a submission of the given content type holding the given text
DocumentOf(content_type, text) ==
    [content_type |-> content_type,
     file_pages |-> IF content_type = "docx" THEN <<text>> ELSE <<>>,
     original_content |-> IF content_type = "docx" THEN Blank ELSE text]

\* C24: every chunk a chunker call returns carries the page_number argument
\* of the call (normal chunks, oversized sub-chunks, the chunk flushed before
\* an oversized sentence); routed as docx, html, markdown or text, the same
\* text gives only chunks with page_number null.
C24_PageNumberArgument ==
    Returned =>
        /\ \A i \in 1..Len(chunks) :
              chunks[i].metadata.page_number = page_number
        /\ \A t \in {"docx", "html", "markdown", "text"} :
              LET cs == RouteChunks(tokenizer_type, DocumentOf(t, sentences),
                                    chunk_tokens, overlap_tokens)
              IN  /\ Len(cs) = Len(chunks)
                  /\ \A i \in 1..Len(cs) : cs[i].metadata.page_number = NoPage

C24_Witness ==
    /\ Returned /\ WellFormedBudgets
    /\ page_number = 1
    /\ \E i \in 2..(Len(chunks) - 1) :
          /\ ~IsOversized(chunks[i - 1])
          /\ ~IsOversized(chunks[i])
          /\ chunks[i].metadata.start_token = chunks[i - 1].metadata.end_token
                                                - chunks[i].token_count
          /\ IsOversized(chunks[i + 1])
          /\ chunks[i + 1].metadata.page_number = 1

\* the words of chunk c are those of n consecutive sentences of the text
JoinsSentences(c, n) ==
    \E a \in 1..Len(sentences) :
        /\ a + n - 1 <= Len(sentences)
        /\ c.text = JoinSentences(SubSeq(sentences, a, a + n - 1))

\* the words of chunk c are consecutive words of one sentence of the text
\* whose token count exceeds chunk_tokens
SubdividesSentence(c) ==
    \E j \in 1..Len(sentences) :
        /\ CountTokens(tokenizer_type, sentences[j]) > chunk_tokens
        /\ \E a \in 1..Len(sentences[j]) :
              /\ a + Len(c.text) - 1 <= Len(sentences[j])
              /\ c.text = SubSeq(sentences[j], a, a + Len(c.text) - 1)

\* C25: every chunk carries exactly one marker.  A normal chunk has
\* sentence_count >= 1, the number of sentences joined into its text, and no
\* oversized_split key; an oversized sub-chunk has oversized_split = true and
\* no sentence_count key, and is part of a sentence whose token count
\* exceeds chunk_tokens.
C25_OneMarker ==
    Returned =>
        \A i \in 1..Len(chunks) :
            LET c == chunks[i]
                m == DOMAIN c.metadata
            IN  \/ /\ "sentence_count" \in m
                   /\ "oversized_split" \notin m
                   /\ c.metadata.sentence_count >= 1
                   /\ JoinsSentences(c, c.metadata.sentence_count)
                \/ /\ "oversized_split" \in m
                   /\ "sentence_count" \notin m
                   /\ c.metadata.oversized_split = TRUE
                   /\ SubdividesSentence(c)

C25_Witness ==
    /\ Returned /\ WellFormedBudgets
    /\ \E i, j \in 1..Len(chunks) :
          /\ ~IsOversized(chunks[i])
          /\ chunks[i].metadata.sentence_count = 2
          /\ chunks[i].token_count = chunk_tokens
          /\ IsOversized(chunks[j])
          /\ "sentence_count" \notin DOMAIN chunks[j].metadata

\* C26: after construction tokenizer_type is one of the three names, chosen
\* in fixed priority: tiktoken if it initializes, otherwise transformers if
\* it initializes, otherwise whitespace; a failing encoder never stops the
\* construction.
C26_TokenizerPriority ==
    /\ tokenizer_type \in TokenizerTypes
    /\ tiktoken_ok => tokenizer_type = "tiktoken"
    /\ (~tiktoken_ok /\ transformers_ok) => tokenizer_type = "transformers"
    /\ (~tiktoken_ok /\ ~transformers_ok) => tokenizer_type = "whitespace"

C26_Witness ==
    /\ ~tiktoken_ok
    /\ transformers_ok
    /\ tokenizer_type = "transformers"
    /\ content_chunks # <<>>
    /\ \A i \in 1..Len(content_chunks) :
          content_chunks[i].metadata.tokenizer_type = "transformers"

\* C27: when neither tiktoken nor transformers is available, every chunk
\* (normal or oversized sub-chunk) has metadata.tokenizer_type = "whitespace"
\* and token_count equal to the number of words of its text.
C27_WhitespaceCounts ==
    (Returned /\ ~tiktoken_ok /\ ~transformers_ok) =>
        \A i \in 1..Len(chunks) :
            /\ chunks[i].metadata.tokenizer_type = "whitespace"
            /\ chunks[i].token_count = Len(chunks[i].text)

C27_Witness ==
    /\ Returned /\ WellFormedBudgets
    /\ ~tiktoken_ok /\ ~transformers_ok
    /\ \E i, j \in 1..Len(chunks) :
          /\ ~IsOversized(chunks[i])
          /\ chunks[i].token_count = 1
          /\ StrLen(chunks[i].text) = 2
          /\ IsOversized(chunks[j])
          /\ chunks[j].token_count = 1
          /\ StrLen(chunks[j].text) = 2

\* C28: every chunk returned has char_offset_end >= char_offset_start >= 0.
C28_OffsetsOrdered ==
    Returned =>
        \A i \in 1..Len(chunks) :
            /\ chunks[i].metadata.char_offset_start >= 0
            /\ chunks[i].metadata.char_offset_end
                  >= chunks[i].metadata.char_offset_start

C28_Witness ==
    /\ Returned /\ WellFormedBudgets
    /\ \E i \in 1..(Len(chunks) - 1) :
          /\ ~IsOversized(chunks[i]) /\ ~IsOversized(chunks[i + 1])
          /\ chunks[i + 1].metadata.char_offset_start
                < chunks[i].metadata.char_offset_end
    /\ \E j \in 1..Len(chunks) :
          /\ IsOversized(chunks[j])
          /\ chunks[j].metadata.char_offset_start > 1

\* C29: along one chunker run neither char_offset_start nor char_offset_end
\* ever decreases from a chunk to the next, oversized sub-chunks included.
C29_OffsetsMonotonic ==
    Returned =>
        \A i \in 1..(Len(chunks) - 1) :
            /\ chunks[i + 1].metadata.char_offset_start
                  >= chunks[i].metadata.char_offset_start
            /\ chunks[i + 1].metadata.char_offset_end
                  >= chunks[i].metadata.char_offset_end

C29_Witness ==
    /\ Returned /\ WellFormedBudgets
    /\ \E i \in 1..(Len(chunks) - 1) :
          /\ ~IsOversized(chunks[i]) /\ IsOversized(chunks[i + 1])
          /\ chunks[i + 1].metadata.char_offset_start
                = chunks[i].metadata.char_offset_end
    /\ \E j \in 1..(Len(chunks) - 1) :
          /\ IsOversized(chunks[j]) /\ ~IsOversized(chunks[j + 1])
          /\ chunks[j + 1].metadata.char_offset_start
                > chunks[j].metadata.char_offset_end

\* C30: the chunker returns no chunk for a text without a sentence (empty
\* or whitespace-only) and at least one chunk for any other text; every chunk
\* returned has non-empty text and token_count > 0.
C30_EmptyAndNonEmpty ==
    Returned =>
        /\ sentences = <<>> => chunks = <<>>
        /\ sentences # <<>> => chunks # <<>>
        /\ \A i \in 1..Len(chunks) :
              chunks[i].text # <<>> /\ chunks[i].token_count > 0

C30_Witness ==
    /\ Returned /\ WellFormedBudgets
    /\ sentences = <<>>
    /\ page_number = 1
    /\ chunk_tokens = MaxChunkTokens
    /\ chunks = <<>>

\* C31: an oversized sentence is a hard boundary in token space.  Every
\* oversized sub-chunk that has a predecessor starts at its predecessor's
\* end_token; a normal chunk that follows a sub-chunk starts at that
\* sub-chunk's end_token, and no earlier chunk reaches beyond that point.
C31_HardBoundary ==
    Returned =>
        \A i \in 1..(Len(chunks) - 1) :
            /\ IsOversized(chunks[i + 1])
               => chunks[i + 1].metadata.start_token
                     = chunks[i].metadata.end_token
            /\ (IsOversized(chunks[i]) /\ ~IsOversized(chunks[i + 1]))
               => /\ chunks[i + 1].metadata.start_token
                        = chunks[i].metadata.end_token
                  /\ \A k \in 1..i :
                        chunks[k].metadata.end_token
                           <= chunks[i + 1].metadata.start_token

C31_Witness ==
    /\ Returned /\ WellFormedBudgets
    /\ overlap_tokens > 0
    /\ \E i \in 1..(Len(chunks) - 3) :
          /\ ~IsOversized(chunks[i])
          /\ IsOversized(chunks[i + 1])
          /\ IsOversized(chunks[i + 2])
          /\ ~IsOversized(chunks[i + 3])
          /\ chunks[i + 3].metadata.start_token
                = chunks[i + 2].metadata.end_token

\* the loop variables of _token_based_chunker before the first sentence
InitialLoopState ==
    [chunks |-> <<>>,
     current_chunk_sentences |-> <<>>,
     current_token_count |-> 0,
     global_token_offset |-> 0,
     char_offset |-> 0]

\* the loop variables after the first k sentences of the text
LoopState(k) ==
    ChunkLoop(tokenizer_type, InitialLoopState, SubSeq(sentences, 1, k),
              chunk_tokens, overlap_tokens, page_number)

\* the budget test fires on sentence k + 1
BudgetFlushAt(k) ==
    /\ k < Len(sentences)
    /\ LoopState(k).current_chunk_sentences # <<>>
    /\ LoopState(k).current_token_count
         + CountTokens(tokenizer_type, sentences[k + 1]) > chunk_tokens

\* the last n sentences of ss
Suffix(ss, n) == SubSeq(ss, Len(ss) - n + 1, Len(ss))

\* tail is the longest suffix of ss whose token counts sum to at most ov
IsLongestTail(tail, ss, ov) ==
    \E n \in 0..Len(ss) :
        /\ tail = Suffix(ss, n)
        /\ SumTokens(tokenizer_type, tail) <= ov
        /\ n < Len(ss) => SumTokens(tokenizer_type, Suffix(ss, n + 1)) > ov

\* words is a prefix of text
StartsWith(text, words) ==
    Len(words) <= Len(text) /\ SubSeq(text, 1, Len(words)) = words

\* C32: with overlap_tokens >= 0, at every flush made by the budget test the
\* chunk emitted holds the pending sentences, the overlap tail kept is the
\* longest suffix of whole sentences of that chunk whose token counts sum to
\* at most overlap_tokens, the token offset advances by the chunk's
\* token_count minus the tail's tokens, and the chunk emitted next starts at
\* that offset with the tail's sentences first, in their original order.
C32_OverlapTail ==
    (Returned /\ overlap_tokens >= 0) =>
        \A k \in 0..(Len(sentences) - 1) :
            BudgetFlushAt(k) =>
                LET st == LoopState(k)
                    f == FlushWithOverlap(tokenizer_type, st, overlap_tokens,
                                          page_number)
                    n == Len(f.chunks)
                    tail == f.current_chunk_sentences
                IN  /\ n = Len(st.chunks) + 1
                    /\ n < Len(chunks)
                    /\ SubSeq(chunks, 1, n) = f.chunks
                    /\ chunks[n].text = JoinSentences(st.current_chunk_sentences)
                    /\ IsLongestTail(tail, st.current_chunk_sentences,
                                     overlap_tokens)
                    /\ f.current_token_count = SumTokens(tokenizer_type, tail)
                    /\ f.global_token_offset
                         = st.global_token_offset + chunks[n].token_count
                             - SumTokens(tokenizer_type, tail)
                    /\ chunks[n + 1].metadata.start_token
                         = f.global_token_offset
                    /\ StartsWith(chunks[n + 1].text, JoinSentences(tail))

C32_Witness ==
    /\ Returned /\ WellFormedBudgets
    /\ \E k \in 0..(Len(sentences) - 1) :
          /\ BudgetFlushAt(k)
          /\ LET st == LoopState(k)
                 f == FlushWithOverlap(tokenizer_type, st, overlap_tokens,
                                       page_number)
             IN  /\ Len(st.current_chunk_sentences) = 2
                 /\ Len(f.current_chunk_sentences) = 1
                 /\ f.current_token_count = overlap_tokens
                 /\ ~IsOversized(chunks[Len(f.chunks) + 1])

\* C33: with chunk_tokens >= 1 and overlap_tokens >= 0, also when
\* overlap_tokens >= chunk_tokens, every normal chunk has
\* 0 < token_count <= chunk_tokens + overlap_tokens.
C33_NormalChunkBound ==
    (Returned /\ chunk_tokens >= 1 /\ overlap_tokens >= 0) =>
        \A i \in 1..Len(chunks) :
            ~IsOversized(chunks[i]) =>
                /\ chunks[i].token_count > 0
                /\ chunks[i].token_count <= chunk_tokens + overlap_tokens

C33_Witness ==
    /\ Returned
    /\ chunk_tokens >= 1
    /\ overlap_tokens >= chunk_tokens
    /\ \E i \in 1..Len(chunks) :
          /\ ~IsOversized(chunks[i])
          /\ chunks[i].metadata.sentence_count >= 2
          /\ chunks[i].token_count = chunk_tokens + overlap_tokens

\* C34: within one chunker run every chunk after the first adds new content:
\* end_token[i+1] > end_token[i] for every adjacent pair of chunks.
C34_EndTokenIncreases ==
    (Returned /\ WellFormedBudgets) =>
        \A i \in 1..(Len(chunks) - 1) :
            chunks[i + 1].metadata.end_token > chunks[i].metadata.end_token

\* C35: no content is dropped: with the whitespace tokenizer the first chunk
\* has start_token = 0, the last chunk has end_token equal to the sum of the
\* token counts of all sentences, every sentence (every word of an oversized
\* sentence) appears in a chunk, and sentences appear in source order.
WordsBefore(k) == Len(Flatten(SubSeq(sentences, 1, k - 1)))

SentenceIn(k, c) ==
    \E a \in 1..Len(c.text) :
        /\ a + Len(sentences[k]) - 1 <= Len(c.text)
        /\ SubSeq(c.text, a, a + Len(sentences[k]) - 1) = sentences[k]
        /\ c.metadata.start_token + a - 1 = WordsBefore(k)

WordIn(k, w, c) ==
    \E a \in 1..Len(c.text) :
        /\ c.text[a] = sentences[k][w]
        /\ c.metadata.start_token + a - 1 = WordsBefore(k) + w - 1

C35_NoContentDropped ==
    (Returned /\ WellFormedBudgets /\ tokenizer_type = "whitespace"
        /\ sentences # <<>>) =>
        /\ chunks # <<>>
        /\ chunks[1].metadata.start_token = 0
        /\ chunks[Len(chunks)].metadata.end_token =
               SumTokens(tokenizer_type, sentences)
        /\ \A k \in 1..Len(sentences) :
               IF CountTokens(tokenizer_type, sentences[k]) > chunk_tokens
               THEN \A w \in 1..Len(sentences[k]) :
                        \E i \in 1..Len(chunks) : WordIn(k, w, chunks[i])
               ELSE \E i \in 1..Len(chunks) : SentenceIn(k, chunks[i])
        /\ \A i \in 1..Len(chunks) :
               /\ chunks[i].metadata.end_token - chunks[i].metadata.start_token
                      = Len(chunks[i].text)
               /\ chunks[i].text =
                      SubSeq(Flatten(sentences),
                             chunks[i].metadata.start_token + 1,
                             chunks[i].metadata.end_token)
        /\ \A i \in 1..(Len(chunks) - 1) :
               chunks[i].metadata.start_token
                   <= chunks[i + 1].metadata.start_token

C35_Witness ==
    /\ Returned
    /\ WellFormedBudgets
    /\ tokenizer_type = "whitespace"
    /\ Len(sentences) = 3
    /\ \E i, j \in 1..Len(chunks) :
          /\ i < j
          /\ ~IsOversized(chunks[i])
          /\ IsOversized(chunks[j])
    /\ chunks[Len(chunks)].metadata.end_token = Len(Flatten(sentences))

(***************************************************************************)
(* scripts/token_chunker_cli.py: TokenChunker.chunk_text.  Its chunk       *)
(* dictionary keeps chunk_index, start_token, end_token and page_number at *)
(* the top level and the character offsets inside metadata.                *)
(***************************************************************************)
\* TokenChunker._count_tokens
CliCountTokens(tt, words) ==
    IF words = <<>> THEN 0
    ELSE IF tt = "tiktoken" THEN EncodeLen(words)
    ELSE IF tt = "transformers" THEN EncodeLen(words)
    ELSE Len(words)

\* the chunk dictionary appended when the pending sentences are finalized
CliChunk(tt, st, page) ==
    [chunk_index |-> Len(st.chunks),
     text |-> JoinSentences(st.current_sentences),
     token_count |-> st.current_tokens,
     start_token |-> st.global_token_offset,
     end_token |-> st.global_token_offset + st.current_tokens,
     page_number |-> page,
     metadata |-> [char_offset_start |->
                       st.char_offset
                         - StrLen(JoinSentences(st.current_sentences)),
                   char_offset_end |-> st.char_offset,
                   chunk_method |-> "token_based",
                   tokenizer_type |-> tt,
                   sentence_count |-> Len(st.current_sentences)]]

\* "Calculate overlap": for sent in reversed(current_sentences)
RECURSIVE CliOverlapScan(_, _, _, _, _)
CliOverlapScan(tt, ss, ov, overlap_sentences, overlap_count) ==
    IF ss = <<>> THEN overlap_sentences
    ELSE LET sent == ss[Len(ss)]
             sent_tokens == CliCountTokens(tt, sent)
         IN  IF overlap_count + sent_tokens <= ov
             THEN CliOverlapScan(tt, SubSeq(ss, 1, Len(ss) - 1), ov,
                                 <<sent>> \o overlap_sentences,
                                 overlap_count + sent_tokens)
             ELSE overlap_sentences

RECURSIVE CliSumTokens(_, _)
CliSumTokens(tt, ss) ==
    IF ss = <<>> THEN 0
    ELSE CliCountTokens(tt, Head(ss)) + CliSumTokens(tt, Tail(ss))

\* CliFlushWithOverlap advancing the token offset past the overlap tail too
CliFlushWithOverlapFullAdvance(tt, st, ov, page) ==
    LET overlap_sentences == CliOverlapScan(tt, st.current_sentences, ov, <<>>, 0)
        overlap_count == CliSumTokens(tt, overlap_sentences)
    IN  [st EXCEPT !.chunks = Append(st.chunks, CliChunk(tt, st, page)),
                   !.global_token_offset =
                       st.global_token_offset + st.current_tokens,
                   !.current_sentences = overlap_sentences,
                   !.current_tokens = overlap_count]

\* "Finalize chunk" followed by "Calculate overlap"
CliFlushWithOverlap(tt, st, ov, page) ==
    LET overlap_sentences == CliOverlapScan(tt, st.current_sentences, ov, <<>>, 0)
        overlap_count == CliSumTokens(tt, overlap_sentences)
    IN  [st EXCEPT !.chunks = Append(st.chunks, CliChunk(tt, st, page)),
                   !.global_token_offset =
                       st.global_token_offset
                         + (st.current_tokens - overlap_count),
                   !.current_sentences = overlap_sentences,
                   !.current_tokens = overlap_count]

\* the pending chunk finalized at the head of the oversized branch
CliFlushPending(tt, st, page) ==
    [st EXCEPT !.chunks = Append(st.chunks, CliChunk(tt, st, page)),
               !.global_token_offset =
                   st.global_token_offset + st.current_tokens,
               !.current_sentences = <<>>,
               !.current_tokens = 0]

\* the chunk dictionary appended for the words collected from a long sentence
CliOversizedChunk(tt, w, page) ==
    [chunk_index |-> Len(w.chunks),
     text |-> w.word_chunk,
     token_count |-> w.word_tokens,
     start_token |-> w.global_token_offset,
     end_token |-> w.global_token_offset + w.word_tokens,
     page_number |-> page,
     metadata |-> [char_offset_start |-> w.char_offset,
                   char_offset_end |-> w.char_offset + StrLen(w.word_chunk),
                   chunk_method |-> "token_based",
                   tokenizer_type |-> tt,
                   oversized_split |-> TRUE]]

\* one iteration of "for word in words": it moves the chunker's own
\* global_token_offset and char_offset
CliWordStep(tt, w, word, ct, page) ==
    LET wt == CliCountTokens(tt, <<word>>)
        w1 == IF w.word_tokens + wt > ct /\ w.word_chunk # <<>>
              THEN [w EXCEPT
                      !.chunks = Append(w.chunks, CliOversizedChunk(tt, w, page)),
                      !.global_token_offset =
                          w.global_token_offset + w.word_tokens,
                      !.char_offset = w.char_offset + StrLen(w.word_chunk) + 1,
                      !.word_chunk = <<>>,
                      !.word_tokens = 0]
              ELSE w
    IN  [w1 EXCEPT !.word_chunk = Append(w1.word_chunk, word),
                   !.word_tokens = w1.word_tokens + wt]

RECURSIVE CliWordLoop(_, _, _, _, _)
CliWordLoop(tt, w, words, ct, page) ==
    IF words = <<>> THEN w
    ELSE CliWordLoop(tt, CliWordStep(tt, w, Head(words), ct, page),
                     Tail(words), ct, page)

\* "Split oversized sentence by words", the rest of the oversized branch
CliSplit(tt, st, sentence, ct, page) ==
    LET w == CliWordLoop(tt, [chunks |-> st.chunks,
                              word_chunk |-> <<>>,
                              word_tokens |-> 0,
                              global_token_offset |-> st.global_token_offset,
                              char_offset |-> st.char_offset],
                         sentence, ct, page)
        w2 == IF w.word_chunk # <<>>
              THEN [w EXCEPT
                      !.chunks = Append(w.chunks, CliOversizedChunk(tt, w, page)),
                      !.global_token_offset =
                          w.global_token_offset + w.word_tokens]
              ELSE w
    IN  [st EXCEPT !.chunks = w2.chunks,
                   !.global_token_offset = w2.global_token_offset,
                   !.char_offset = w2.char_offset + StrLen(sentence) + 1]

\* one iteration of "for sentence in sentences" of chunk_text
CliStep(tt, st, sentence, ct, ov, page) ==
    LET sentence_tokens == CliCountTokens(tt, sentence)
        st1 == IF st.current_tokens + sentence_tokens > ct
                  /\ st.current_sentences # <<>>
               THEN CliFlushWithOverlap(tt, st, ov, page)
               ELSE st
    IN  IF sentence_tokens > ct
        THEN LET st2 == IF st1.current_sentences # <<>>
                        THEN CliFlushPending(tt, st1, page)
                        ELSE st1
             IN  CliSplit(tt, st2, sentence, ct, page)
        ELSE [st1 EXCEPT
                !.current_sentences = Append(st1.current_sentences, sentence),
                !.current_tokens = st1.current_tokens + sentence_tokens,
                !.char_offset = st1.char_offset + StrLen(sentence) + 1]

RECURSIVE CliLoop(_, _, _, _, _, _)
CliLoop(tt, st, ss, ct, ov, page) ==
    IF ss = <<>> THEN st
    ELSE CliLoop(tt, CliStep(tt, st, Head(ss), ct, ov, page),
                 Tail(ss), ct, ov, page)

\* TokenChunker.chunk_text on the segmented sentences of its text argument
CliChunkText(tt, ss, ct, ov, page) ==
    IF ss = <<>> THEN <<>>
    ELSE LET st == CliLoop(tt, [chunks |-> <<>>,
                                current_sentences |-> <<>>,
                                current_tokens |-> 0,
                                global_token_offset |-> 0,
                                char_offset |-> 0],
                           ss, ct, ov, page)
         IN  IF st.current_sentences # <<>>
             THEN Append(st.chunks, CliChunk(tt, st, page))
             ELSE st.chunks

(***************************************************************************)
(* Specification of the two chunkers run on the same sentences, budgets    *)
(* and page number, with the tokenizer the environment selects for both.   *)
(***************************************************************************)
RunCliChunker ==
    /\ cpc \in {"call", "returned"}
    /\ cli.pc = "call"
    /\ cli' = [pc |-> "returned",
               chunks |-> CliChunkText(tokenizer_type, sentences, chunk_tokens,
                                       overlap_tokens, page_number)]
    /\ UNCHANGED <<tokenizerVars, chunkerVars, serviceVars>>

CliNext == RunChunker \/ RunCliChunker

SpecCli == ChunkerInit /\ [][CliNext]_vars

BothReturned == Returned /\ cli.pc = "returned"

\* the token data of a chunk of the CLI chunker
CliTokenData(c) ==
    [text |-> c.text,
     token_count |-> c.token_count,
     chunk_index |-> c.chunk_index,
     start_token |-> c.start_token,
     end_token |-> c.end_token,
     page_number |-> c.page_number,
     has_sentence_count |-> "sentence_count" \in DOMAIN c.metadata,
     sentence_count |-> IF "sentence_count" \in DOMAIN c.metadata
                        THEN c.metadata.sentence_count ELSE 0,
     oversized_split |-> "oversized_split" \in DOMAIN c.metadata
                             /\ c.metadata.oversized_split = TRUE]

\* the token data of a chunk of the service chunker
ServiceTokenData(c) ==
    [text |-> c.text,
     token_count |-> c.token_count,
     chunk_index |-> c.metadata.chunk_index,
     start_token |-> c.metadata.start_token,
     end_token |-> c.metadata.end_token,
     page_number |-> c.metadata.page_number,
     has_sentence_count |-> "sentence_count" \in DOMAIN c.metadata,
     sentence_count |-> IF "sentence_count" \in DOMAIN c.metadata
                        THEN c.metadata.sentence_count ELSE 0,
     oversized_split |-> IsOversized(c)]

\* C36: for the same sentences, budgets and page_number the CLI chunker and
\* the service chunker emit the same number of chunks, and the i-th chunks
\* agree on text, token_count, chunk_index, start_token, end_token,
\* page_number, sentence_count and oversized_split.
C36_SameTokenData ==
    BothReturned =>
        /\ Len(cli.chunks) = Len(chunks)
        /\ \A i \in 1..Len(chunks) :
               CliTokenData(cli.chunks[i]) = ServiceTokenData(chunks[i])

C36_Witness ==
    /\ BothReturned
    /\ WellFormedBudgets
    /\ Len(chunks) >= 3
    /\ \E i, j \in 1..Len(cli.chunks) :
          /\ i < j
          /\ "oversized_split" \in DOMAIN cli.chunks[i].metadata
          /\ "sentence_count" \in DOMAIN cli.chunks[j].metadata
    /\ \E i \in 1..Len(cli.chunks) :
          /\ "sentence_count" \in DOMAIN cli.chunks[i].metadata
          /\ cli.chunks[i].metadata.sentence_count = 2
          /\ cli.chunks[i].start_token > 0

\* C37: the CLI chunker and the service chunker assign the same
\* char_offset_start and char_offset_end to corresponding chunks, for every
\* input, chunks emitted after an oversized sentence included.
C37_SameCharOffsets ==
    (BothReturned /\ WellFormedBudgets) =>
        /\ Len(cli.chunks) = Len(chunks)
        /\ \A i \in 1..Len(chunks) :
               /\ cli.chunks[i].metadata.char_offset_start
                      = chunks[i].metadata.char_offset_start
               /\ cli.chunks[i].metadata.char_offset_end
                      = chunks[i].metadata.char_offset_end

(***************************************************************************)
(* Specification of the validation of a PreprocessingRequest: the Field    *)
(* bounds of chunk_tokens and overlap_tokens, each checked on its own.     *)
(***************************************************************************)
RequestChunkTokens ==
    {MinChunkTokens - 1, MinChunkTokens, MinChunkTokens + 1,
     DefaultChunkTokens, MaxChunkTokensAllowed - 1, MaxChunkTokensAllowed,
     MaxChunkTokensAllowed + 1, MaxChunkTokensAllowed + MaxChunkTokens}

RequestOverlapTokens ==
    {MinOverlapTokens - 1, MinOverlapTokens, MinOverlapTokens + 1,
     DefaultOverlapTokens, MaxOverlapTokensAllowed - 1,
     MaxOverlapTokensAllowed, MaxOverlapTokensAllowed + 1,
     MaxOverlapTokensAllowed + MaxOverlapTokens}

RequestInit ==
    /\ TokenizerInit
    /\ sentences = <<>>
    /\ chunk_tokens \in RequestChunkTokens
    /\ overlap_tokens \in RequestOverlapTokens
    /\ page_number = NoPage
    /\ chunks = <<>>
    /\ raised = "none"
    /\ cpc = "validate"
    /\ submissions =
           [s \in Subs |-> CHOOSE d \in Documents : d.content_type = "text"]
    /\ sub_status = [s \in Subs |-> "uploaded"]
    /\ ServiceIdle
    /\ CliIdle

\* both fields pass their ge/le constraints: the request object is built
AcceptRequest ==
    /\ cpc = "validate"
    /\ BudgetsInBounds(chunk_tokens, overlap_tokens)
    /\ cpc' = "accepted"
    /\ UNCHANGED <<tokenizerVars, cliVars, sentences, chunk_tokens,
                   overlap_tokens, page_number, chunks, raised, serviceVars>>

\* a field violates its ge/le constraint: pydantic raises ValidationError
RejectRequest ==
    /\ cpc = "validate"
    /\ ~BudgetsInBounds(chunk_tokens, overlap_tokens)
    /\ raised' = "ValidationError"
    /\ cpc' = "rejected"
    /\ UNCHANGED <<tokenizerVars, cliVars, sentences, chunk_tokens,
                   overlap_tokens, page_number, chunks, serviceVars>>

RequestNext == AcceptRequest \/ RejectRequest

SpecRequest == RequestInit /\ [][RequestNext]_vars

\* C38: every (chunk_tokens, overlap_tokens) pair accepted by the
\* PreprocessingRequest bounds satisfies overlap_tokens < chunk_tokens.
C38_AcceptedPairsWellFormed ==
    cpc = "accepted" => overlap_tokens < chunk_tokens

\* C39: for every stored chunk, of every content type (pdf with global
\* re-indexing and texts with oversized sentences included), the stored
\* chunk_index column equals the chunk_index inside the chunk's metadata.
C39_IndexColumnMatchesMetadata ==
    \A i \in 1..Len(content_chunks) :
        content_chunks[i].chunk_index = content_chunks[i].metadata.chunk_index

C39_Witness ==
    /\ \E i \in 1..Len(content_chunks) :
          /\ submissions[content_chunks[i].submission_id].content_type = "pdf"
          /\ content_chunks[i].metadata.page_number > 1
          /\ content_chunks[i].chunk_index >= 2
          /\ IsOversized(content_chunks[i])
    /\ \E i \in 1..Len(content_chunks) :
          /\ submissions[content_chunks[i].submission_id].content_type
                 \in TextTypes
          /\ content_chunks[i].chunk_index >= 1

\* orchestrator q's latest call preprocessed the submission p is working on:
\* q returned, the status is `preprocessed` and q's rows are the stored chunks
CommittedBy(q, sid) ==
    /\ call[q].op = "preprocess"
    /\ call[q].sid = sid
    /\ result[q].kind = "return"
    /\ sub_status[sid] = "preprocessed"
    /\ ChunksOf(content_chunks, sid)
         = ExpectedRows(sid, call[q].chunk_tokens, call[q].overlap_tokens)

OneRowPerIndex(table, sid) ==
    LET rows == ChunksOf(table, sid)
    IN  \A i, j \in 1..Len(rows) :
            rows[i].chunk_index = rows[j].chunk_index => i = j

\* C40: when two preprocess invocations for the same submission interleave
\* (both read the status before either commits `preprocessed`), the
\* submission ends with status `preprocessed` and exactly one stored chunk
\* per chunk_index.  The second of the two commits is the step checked.
C40_NoSecondCopy ==
    [][\A p, q \in Orchestrators :
          (p # q /\ Succeeds(p) /\ CommittedBy(q, call[p].sid))
          => /\ sub_status'[call[p].sid] = "preprocessed"
             /\ OneRowPerIndex(content_chunks', call[p].sid)]_vars

====
